---- MODULE Spec2Model ----
(***************************************************************************)
(* Model of the sumkin revisioned key-value backend (src/src/sqlite.rs).   *)
(*                                                                         *)
(* The store is one SQLite table, `sumkin`, used as an append-only log.    *)
(* Every Backend operation is one action; the SQL the operation runs is    *)
(* modelled by operators over the log.  Key names are sequences of         *)
(* one-character strings so that the LIKE operator of LIST_SQL can be      *)
(* computed character by character.  Under Spec operations run one after   *)
(* another (each action is a whole transaction); under SpecConcurrent      *)
(* several writers take the steps of put in their own transactions.        *)
(*                                                                         *)
(* Scope: key names are non-numeric text, so the INTEGER affinity of the   *)
(* `name` column (SCHEMA) stores them unchanged.                           *)
(***************************************************************************)
EXTENDS Integers, Sequences, FiniteSets

VARIABLES
    log,          \* the rows of table sumkin, in id order
    last,         \* the last Backend call and what it returned
    maxReturned,  \* history: greatest revision returned by a put or delete so far
    deletedLive,  \* history: keys deleted while live and not put since
    tx,           \* concurrent puts: each writer's open transaction
    writeLock,    \* concurrent puts: the writer holding the engine's write lock, or 0
    acks          \* history: the puts that returned a revision to a concurrent writer

vars == <<log, last, maxReturned, deletedLive, tx, writeLock, acks>>

\* the state of the concurrent writers
concVars == <<tx, writeLock, acks>>

\* the state of the single caller
callVars == <<last, maxReturned, deletedLive>>

----------------------------------------------------------------------------
(* Bounds and input sets *)

MaxLog == 3

\* the rows concurrent writers may commit
MaxCommits == 2

\* the callers sharing the pool
Writers == {1, 2}

NULL == "NULL"

Values == {"OK", "NO"}

\* the names put is called with: a name ending in the separator, a plain
\* name under it, and a name holding the LIKE wildcard '_'
Keys ==
    { <<"/", "r", "/">>,
      <<"/", "r", "/", "h">>,
      <<"/", "r", "/", "_">> }

\* the names delete, get and count are called with
Names == Keys \cup { <<"/", "r">> }

\* the prefixes the read paths are evaluated on
Prefixes == Names \cup { <<"/", "R", "/">>, <<"/", "_", "/">> }

Limits == {-1, 0, 1, 2}

\* the explicit revisions get is called with
Revisions == {1}

NoName == <<>>

----------------------------------------------------------------------------
(* Strings *)

\* str::ends_with('/')
EndsWithSlash(s) == Len(s) > 0 /\ s[Len(s)] = "/"

\* the prefix relation on names ("begins with")
StartsWith(s, p) == Len(p) <= Len(s) /\ SubSeq(s, 1, Len(p)) = p

\* SQLite's LIKE folds the case of ASCII letters
Fold(c) == IF c = "R" THEN "r" ELSE IF c = "H" THEN "h" ELSE IF c = "S" THEN "s" ELSE c

\* SQLite's LIKE: '%' matches any sequence of characters, '_' exactly one
\* character, any other character itself up to ASCII case.  No ESCAPE.
RECURSIVE LikeFrom(_, _, _, _)
LikeFrom(pat, s, i, j) ==
    IF i > Len(pat) THEN j > Len(s)
    ELSE IF pat[i] = "%"
         THEN LikeFrom(pat, s, i + 1, j) \/ (j <= Len(s) /\ LikeFrom(pat, s, i, j + 1))
    ELSE IF j > Len(s) THEN FALSE
    ELSE IF pat[i] = "_" THEN LikeFrom(pat, s, i + 1, j + 1)
    ELSE Fold(pat[i]) = Fold(s[j]) /\ LikeFrom(pat, s, i + 1, j + 1)

\* name LIKE pattern, tabulated over the names and bound parameters in use
LikeTable ==
    [ pat \in Prefixes \cup { p \o <<"%">> : p \in Prefixes } |->
        { s \in Names : LikeFrom(pat, s, 1, 1) } ]

Like(s, pat) == s \in LikeTable[pat]

----------------------------------------------------------------------------
(* SQL *)

\* SELECT MAX(rkv.id) AS id FROM sumkin AS rkv, decoded as i64: NULL reads 0
CURRENT_REVISION_SQL(l) == IF Len(l) = 0 THEN 0 ELSE l[Len(l)].id

\* variant: the engine leaves a gap before every id after the first
AutoIncrement_SkipsId(l) == IF Len(l) = 0 THEN 1 ELSE l[Len(l)].id + 2

\* variant: the engine hands out the greatest id in use again
AutoIncrement_ReusesId(l) == IF Len(l) = 0 THEN 1 ELSE l[Len(l)].id

\* id INTEGER PRIMARY KEY AUTOINCREMENT: one more than the greatest id ever used
AutoIncrement(l) == IF Len(l) = 0 THEN 1 ELSE l[Len(l)].id + 1

\* the value a bool parameter is bound as, and the value of an unbound one
BindBool(b) == IF b THEN "1" ELSE "0"

\* variant: no GROUP BY, every row of a matching name is joined
MaxIds_NoGrouping(l, pattern) ==
    { l[i].id : i \in { i \in 1..Len(l) : Like(l[i].name, pattern) } }

\* SELECT MAX(mkv.id) FROM sumkin AS mkv WHERE mkv.name LIKE ? GROUP BY mkv.name
MaxIds(l, pattern) ==
    { l[i].id : i \in { i \in 1..Len(l) :
                          /\ Like(l[i].name, pattern)
                          /\ \A j \in 1..Len(l) : l[j].name = l[i].name => l[j].id <= l[i].id } }

\* #[derive(FromRow)] KeyValue: name AS key, theid AS mod_revision
KeyValue(row) ==
    [ key             |-> row.name,
      create_revision |-> row.create_revision,
      mod_revision    |-> row.id,
      value           |-> row.value,
      lease           |-> row.lease ]

\* variant: ORDER BY kv.id DESC
LIST_SQL_Descending(l, pattern, deletedParam) ==
    LET maxkv == MaxIds(l, pattern)
        keep(row) == /\ row.id \in maxkv
                     /\ (row.deleted = FALSE \/ deletedParam = "1")
        rows == SelectSeq(l, keep)
    IN  [ i \in 1..Len(rows) |-> KeyValue(rows[Len(rows) + 1 - i]) ]

\* LIST_SQL: the rows JOINed on the max ids, WHERE (kv.deleted = 0 OR ?),
\* ORDER BY kv.id ASC
LIST_SQL(l, pattern, deletedParam) ==
    LET maxkv == MaxIds(l, pattern)
        keep(row) == /\ row.id \in maxkv
                     /\ (row.deleted = FALSE \/ deletedParam = "1")
        rows == SelectSeq(l, keep)
    IN  [ i \in 1..Len(rows) |-> KeyValue(rows[i]) ]

\* variant: the unbound second parameter reads as true, tombstones are counted
COUNT_SQL_CountsDeleted(l, pattern) == Len(LIST_SQL(l, pattern, "1"))

\* COUNT_SQL: COUNT(c.theid) over LIST_SQL; only the first parameter is bound
COUNT_SQL(l, pattern) == Len(LIST_SQL(l, pattern, NULL))

\* " LIMIT n" appended to the statement
SqlLimit(rows, n) == IF Len(rows) <= n THEN rows ELSE SubSeq(rows, 1, n)

----------------------------------------------------------------------------
(* SqliteBackend helpers *)

\* the parameter bound to LIKE: format!("{}%", prefix) for a prefix ending in '/'
BindPrefix(prefix) == IF EndsWithSlash(prefix) THEN prefix \o <<"%">> ELSE prefix

\* variant: LIMIT is appended for a limit of 0 as well
list_current_with_tx_LimitZero(l, prefix, limit, include_deleted) ==
    LET rows == LIST_SQL(l, BindPrefix(prefix), BindBool(include_deleted))
    IN  IF limit >= 0 THEN SqlLimit(rows, limit) ELSE rows

list_current_with_tx(l, prefix, limit, include_deleted) ==
    LET rows == LIST_SQL(l, BindPrefix(prefix), BindBool(include_deleted))
    IN  IF limit > 0 THEN SqlLimit(rows, limit) ELSE rows

\* revision = None: the first row of list_current(name, 1, false), or absent
\* (an Option is a sequence of length 0 or 1)
get_with_tx(l, name) ==
    LET kv == list_current_with_tx(l, name, 1, FALSE)
    IN  IF Len(kv) = 0 THEN <<>> ELSE <<kv[1]>>

current_revision_with_tx(l) == CURRENT_REVISION_SQL(l)

\* variant: an explicit revision is ignored and the current row returned
trait_get_IgnoresRevision(l, name, revision) ==
    [ signal |-> "ok", kvs |-> get_with_tx(l, name) ]

\* Backend::get (the default method; SqliteBackend does not override it):
\* unimplemented!() panics for Some(revision)
trait_get(l, name, revision) ==
    IF Len(revision) > 0
    THEN [ signal |-> "unimplemented", kvs |-> <<>> ]
    ELSE LET kv == list_current_with_tx(l, name, 1, FALSE)
         IN  [ signal |-> "ok", kvs |-> IF Len(kv) = 0 THEN <<>> ELSE <<kv[1]>> ]

\* the row INSERT adds; last_insert_rowid() is its id
insert_with_tx(l, name, created, deleted, create_revision, prev_revision, lease, value, old_value) ==
    [ id              |-> AutoIncrement(l),
      name            |-> name,
      created         |-> created,
      deleted         |-> deleted,
      create_revision |-> create_revision,
      prev_revision   |-> prev_revision,
      lease           |-> lease,
      value           |-> value,
      old_value       |-> old_value ]

\* Backend::count
CountOf(l, prefix) == COUNT_SQL(l, BindPrefix(prefix))

\* the row put appends
PutRow(l, name, value) ==
    LET next_revision == current_revision_with_tx(l) + 1
        kv == get_with_tx(l, name)
    IN  IF Len(kv) > 0
        THEN insert_with_tx(l, name, FALSE, FALSE, kv[1].create_revision, NULL, NULL, value, kv[1].value)
        ELSE insert_with_tx(l, name, TRUE, FALSE, next_revision, NULL, NULL, value, NULL)

\* the row delete appends when get_with_tx finds a row
DeleteRow(l, name) ==
    LET kv == get_with_tx(l, name)
    IN  insert_with_tx(l, name, FALSE, TRUE, 0, NULL, NULL, NULL, kv[1].value)

----------------------------------------------------------------------------
(* The current row of a key, by exact name *)

HasRow(l, k) == \E i \in 1..Len(l) : l[i].name = k

CurrentRow(l, k) ==
    l[CHOOSE i \in 1..Len(l) :
        /\ l[i].name = k
        /\ \A j \in 1..Len(l) : l[j].name = k => j <= i]

IsLive(l, k) == HasRow(l, k) /\ ~CurrentRow(l, k).deleted

----------------------------------------------------------------------------
(* Backend operations *)

Call(op, name, value, limit, include_deleted, revision, kvs, count) ==
    [ op |-> op, name |-> name, value |-> value, limit |-> limit,
      include_deleted |-> include_deleted, revision |-> revision,
      kvs |-> kvs, count |-> count,
      at |-> <<>>, signal |-> "ok" ]

Max(a, b) == IF a >= b THEN a ELSE b

\* no transaction open
TxIdle ==
    [ pc |-> "idle", name |-> NoName, value |-> NULL, snap |-> 0,
      next_revision |-> 0, kv |-> <<>>, row |-> <<>> ]

Init ==
    /\ log = <<>>
    /\ last = Call("new", NoName, NULL, 0, FALSE, 0, <<>>, 0)
    /\ maxReturned = 0
    /\ deletedLive = {}
    /\ tx = [ w \in Writers |-> TxIdle ]
    /\ writeLock = 0
    /\ acks = <<>>

put(name, value) ==
    /\ Len(log) < MaxLog
    /\ LET row == PutRow(log, name, value)
       IN  /\ log' = Append(log, row)
           /\ last' = Call("put", name, value, 0, FALSE, row.id, <<>>, 0)
           /\ maxReturned' = Max(maxReturned, row.id)
    /\ deletedLive' = deletedLive \ {name}
    /\ UNCHANGED concVars

delete(name) ==
    /\ IF Len(get_with_tx(log, name)) > 0
       THEN /\ Len(log) < MaxLog
            /\ LET row == DeleteRow(log, name)
               IN  /\ log' = Append(log, row)
                   /\ last' = Call("delete", name, NULL, 0, FALSE, row.id, <<>>, 0)
                   /\ maxReturned' = Max(maxReturned, row.id)
       ELSE /\ log' = log
            /\ last' = Call("delete", name, NULL, 0, FALSE, CURRENT_REVISION_SQL(log), <<>>, 0)
            /\ maxReturned' = Max(maxReturned, CURRENT_REVISION_SQL(log))
    /\ deletedLive' = IF IsLive(log, name) THEN deletedLive \cup {name} ELSE deletedLive
    /\ UNCHANGED concVars

get(name) ==
    /\ last' = Call("get", name, NULL, 0, FALSE, 0, get_with_tx(log, name), 0)
    /\ UNCHANGED <<log, maxReturned, deletedLive>>
    /\ UNCHANGED concVars

\* get(name, Some(revision))
get_at(name, revision) ==
    /\ LET res == trait_get(log, name, <<revision>>)
       IN  last' = [ Call("get", name, NULL, 0, FALSE, 0, res.kvs, 0)
                       EXCEPT !.at = <<revision>>, !.signal = res.signal ]
    /\ UNCHANGED <<log, maxReturned, deletedLive>>
    /\ UNCHANGED concVars

list_current(prefix, limit, include_deleted) ==
    /\ last' = Call("list_current", prefix, NULL, limit, include_deleted, 0,
                    list_current_with_tx(log, prefix, limit, include_deleted), 0)
    /\ UNCHANGED <<log, maxReturned, deletedLive>>
    /\ UNCHANGED concVars

count(prefix) ==
    /\ last' = Call("count", prefix, NULL, 0, FALSE, 0, <<>>, CountOf(log, prefix))
    /\ UNCHANGED <<log, maxReturned, deletedLive>>
    /\ UNCHANGED concVars

current_revision ==
    /\ last' = Call("current_revision", NoName, NULL, 0, FALSE, CURRENT_REVISION_SQL(log), <<>>, 0)
    /\ UNCHANGED <<log, maxReturned, deletedLive>>
    /\ UNCHANGED concVars

Next ==
    \/ \E name \in Keys, value \in Values : put(name, value)
    \/ \E name \in Names : delete(name)
    \/ \E name \in Names : get(name)
    \/ \E name \in Keys, revision \in Revisions : get_at(name, revision)
    \/ \E prefix \in Keys, limit \in Limits, include_deleted \in BOOLEAN :
          list_current(prefix, limit, include_deleted)
    \/ \E prefix \in Keys : count(prefix)
    \/ current_revision

Spec == Init /\ [][Next]_vars

----------------------------------------------------------------------------
(* Concurrent puts: the steps of SqliteBackend::put taken by several        *)
(* writers, each in its own transaction on the shared pool.  SQLite gives   *)
(* a transaction the snapshot of its first read, allows one writer at a     *)
(* time, and refuses a write from a snapshot that is no longer the latest.  *)

\* what transaction w reads: the table as of its first SELECT
Snapshot(w) == SubSeq(log, 1, tx[w].snap)

\* variant: a write is accepted from a snapshot other writers have overtaken
SnapshotIsCurrent_Permissive(w) == TRUE

\* no row was committed since w's snapshot was taken
SnapshotIsCurrent(w) == tx[w].snap = Len(log)

\* variant: writers are not serialised
WriteLockFree_Unlocked(w) == TRUE

\* no other transaction holds the write lock
WriteLockFree(w) == writeLock \in {0, w}

\* pool.begin() and current_revision_with_tx: the first read fixes the snapshot
put_begin(w, name, value) ==
    /\ tx[w].pc = "idle"
    /\ Len(log) < MaxCommits
    /\ tx' = [ tx EXCEPT ![w] =
                 [ TxIdle EXCEPT !.pc = "get", !.name = name, !.value = value,
                                 !.snap = Len(log),
                                 !.next_revision = current_revision_with_tx(log) + 1 ] ]
    /\ UNCHANGED <<log, writeLock, acks>>
    /\ UNCHANGED callVars

\* get_with_tx(&mut tx, name, None)
put_get(w) ==
    /\ tx[w].pc = "get"
    /\ tx' = [ tx EXCEPT ![w].pc = "insert",
                         ![w].kv = get_with_tx(Snapshot(w), tx[w].name) ]
    /\ UNCHANGED <<log, writeLock, acks>>
    /\ UNCHANGED callVars

\* insert_with_tx: the INSERT takes the write lock
put_insert(w) ==
    /\ tx[w].pc = "insert"
    /\ SnapshotIsCurrent(w)
    /\ WriteLockFree(w)
    /\ LET t == tx[w]
           row == IF Len(t.kv) > 0
                  THEN insert_with_tx(log, t.name, FALSE, FALSE, t.kv[1].create_revision,
                                      NULL, NULL, t.value, t.kv[1].value)
                  ELSE insert_with_tx(log, t.name, TRUE, FALSE, t.next_revision,
                                      NULL, NULL, t.value, NULL)
       IN  tx' = [ tx EXCEPT ![w].pc = "commit", ![w].row = <<row>> ]
    /\ writeLock' = w
    /\ UNCHANGED <<log, acks>>
    /\ UNCHANGED callVars

\* the INSERT fails (the engine reports busy or locked): put returns the
\* error and the dropped transaction is rolled back
put_abort(w) ==
    /\ tx[w].pc = "insert"
    /\ ~(SnapshotIsCurrent(w) /\ WriteLockFree(w))
    /\ tx' = [ tx EXCEPT ![w] = TxIdle ]
    /\ UNCHANGED <<log, writeLock, acks>>
    /\ UNCHANGED callVars

\* tx.commit() and Ok(revision)
put_commit(w) ==
    /\ tx[w].pc = "commit"
    /\ log' = Append(log, tx[w].row[1])
    /\ writeLock' = 0
    /\ acks' = Append(acks, [ writer |-> w, name |-> tx[w].name,
                              value |-> tx[w].value, revision |-> tx[w].row[1].id ])
    /\ tx' = [ tx EXCEPT ![w] = TxIdle ]
    /\ UNCHANGED callVars

NextConcurrent ==
    \/ \E w \in Writers, name \in Keys, value \in Values : put_begin(w, name, value)
    \/ \E w \in Writers : put_get(w)
    \/ \E w \in Writers : put_insert(w)
    \/ \E w \in Writers : put_abort(w)
    \/ \E w \in Writers : put_commit(w)

SpecConcurrent == Init /\ [][NextConcurrent]_vars

----------------------------------------------------------------------------
(* Properties *)

Min(a, b) == IF a <= b THEN a ELSE b

\* the log before the last row was appended
Front(l) == SubSeq(l, 1, Len(l) - 1)

\* the live keys whose name begins with prefix p
LiveUnder(l, p) == { k \in Keys : StartsWith(k, p) /\ IsLive(l, k) }

\* the log has not been read since it last changed: every log the store
\* reaches is first seen in such a state, so a property of the log alone is
\* evaluated there once instead of once per read
LogIsNew == last.op \in {"new", "put", "delete"}

\* C1: the first mutation of an empty store returns revision 1, and every
\* put, and every delete of a live key, returns a revision strictly greater
\* than every revision an earlier put or delete returned.
C1_RevisionsStrictlyIncrease ==
    [][ (last'.op = "put" \/ (last'.op = "delete" /\ IsLive(log, last'.name)))
          => /\ last'.revision > maxReturned
             /\ (Len(log) = 0 => last'.revision = 1) ]_vars

\* a delete of a live key has returned after an earlier put returned
C1_Witness ==
    /\ last.op = "delete"
    /\ Len(log) >= 2
    /\ IsLive(Front(log), last.name)
    /\ last.revision = log[Len(log)].id
    /\ last.revision > 1

\* C2: put(k, v) immediately followed by get(k, None) returns a KeyValue
\* whose key is k and whose value is v, whether or not k ends in '/'.
C2_PutGetRoundTrip ==
    last.op = "put" =>
        LET kv == get_with_tx(log, last.name)
        IN  /\ Len(kv) = 1
            /\ kv[1].key = last.name
            /\ kv[1].value = last.value

\* C3: a put to a live key k appends an update row (created and deleted
\* false) whose create_revision is that of k's current row, and the
\* following get(k) returns that create_revision and a mod_revision equal to
\* the returned revision, greater than the previous mod_revision.
C3_UpdateKeepsCreateRevision ==
    [][ (last'.op = "put" /\ IsLive(log, last'.name))
          => LET k   == last'.name
                 cur == CurrentRow(log, k)
                 row == log'[Len(log')]
                 kv  == get_with_tx(log', k)
             IN  /\ row.created = FALSE
                 /\ row.deleted = FALSE
                 /\ row.create_revision = cur.create_revision
                 /\ Len(kv) = 1
                 /\ kv[1].create_revision = cur.create_revision
                 /\ kv[1].mod_revision = last'.revision
                 /\ last'.revision > cur.id ]_vars

\* C4: once a live key k has been deleted, get(k, None) returns absent and
\* count(k) is 0, until the next put(k, _).
C4_DeleteThenGetAbsent ==
    \A k \in deletedLive :
        /\ get_with_tx(log, k) = <<>>
        /\ CountOf(log, k) = 0

\* C5: delete(k) on a key that was never created, or whose current row is a
\* tombstone, appends no row and returns the unchanged current revision.
C5_DeleteIdempotent ==
    [][ (last'.op = "delete" /\ ~IsLive(log, last'.name))
          => /\ log' = log
             /\ last'.revision = CURRENT_REVISION_SQL(log) ]_vars

\* C6: delete(p) of a name p ending in '/', with live keys under it and no
\* row ever created with the name p, appends no row, returns the unchanged
\* current revision and leaves every key under p live with its value.
C6_PrefixDeleteIsNoOp ==
    [][ ( /\ last'.op = "delete"
          /\ EndsWithSlash(last'.name)
          /\ ~HasRow(log, last'.name)
          /\ LiveUnder(log, last'.name) # {} )
          => /\ log' = log
             /\ last'.revision = CURRENT_REVISION_SQL(log)
             /\ \A c \in LiveUnder(log, last'.name) :
                    /\ IsLive(log', c)
                    /\ CurrentRow(log', c).value = CurrentRow(log, c).value ]_vars

\* the rows are in ascending order of mod_revision
Ascending(kvs) ==
    \A i, j \in 1..Len(kvs) : i < j => kvs[i].mod_revision < kvs[j].mod_revision

\* C7: for a prefix ending in '/', list_current(prefix, limit <= 0, false)
\* returns exactly the current row of every key whose name begins with the
\* prefix and whose current row is not a tombstone, in ascending id order;
\* with include_deleted the tombstoned keys are returned as well.
C7_HierarchicalListing ==
    \A p \in { q \in Prefixes : EndsWithSlash(q) } : \A limit \in {-1, 0} :
        LET live == list_current_with_tx(log, p, limit, FALSE)
            all  == list_current_with_tx(log, p, limit, TRUE)
            rowsOf(ks) == { KeyValue(CurrentRow(log, k)) : k \in ks }
        IN  /\ { live[i] : i \in 1..Len(live) } = rowsOf(LiveUnder(log, p))
            /\ Len(live) = Cardinality(LiveUnder(log, p))
            /\ Ascending(live)
            /\ { all[i] : i \in 1..Len(all) }
                   = rowsOf({ k \in Keys : StartsWith(k, p) /\ HasRow(log, k) })
            /\ Ascending(all)

\* C8: list_current with a positive limit n returns the first min(n, total)
\* rows of what the same call returns with a non-positive limit; a limit of
\* 0 or below returns the whole result.
C8_LimitIsPrefixOfFullResult ==
    /\ LogIsNew =>
          \A p \in Prefixes : \A d \in BOOLEAN :
              LET full == list_current_with_tx(log, p, -1, d)
              IN  /\ list_current_with_tx(log, p, 0, d) = full
                  /\ \A n \in 1..(MaxLog + 1) :
                        list_current_with_tx(log, p, n, d)
                            = SubSeq(full, 1, Min(n, Len(full)))
    /\ last.op = "list_current" =>
          LET full == list_current_with_tx(log, last.name, -1, last.include_deleted)
          IN  last.kvs = IF last.limit > 0
                         THEN SubSeq(full, 1, Min(last.limit, Len(full)))
                         ELSE full

\* a list_current call whose positive limit cut the result short
C8_Witness ==
    /\ last.op = "list_current"
    /\ last.limit = 2
    /\ Len(last.kvs) = 2
    /\ Len(list_current_with_tx(log, last.name, -1, last.include_deleted)) > 2

\* C9 as stated: with a live key under a hierarchical prefix,
\* list_current(prefix, 1, false) returns one row, that of the live key
\* under the prefix with the smallest create_revision.
C9_FirstIsEarliestCreated ==
    \A p \in { q \in Prefixes : EndsWithSlash(q) } :
        LiveUnder(log, p) # {} =>
            LET kvs == list_current_with_tx(log, p, 1, FALSE)
            IN  /\ Len(kvs) = 1
                /\ kvs[1].key \in LiveUnder(log, p)
                /\ \A k \in LiveUnder(log, p) :
                       kvs[1].create_revision <= CurrentRow(log, k).create_revision

\* the live current rows of the names the bound LIKE parameter matches
MatchedLiveRows(l, p) ==
    { KeyValue(CurrentRow(l, k)) : k \in { n \in Keys : Like(n, BindPrefix(p)) /\ IsLive(l, n) } }

\* C9 amended: with a live key under a hierarchical prefix,
\* list_current(prefix, 1, false) returns one row, the one with the smallest
\* mod_revision among the live current rows the query matches.
C9_FirstIsLeastRecentlyModified ==
    \A p \in { q \in Prefixes : EndsWithSlash(q) } :
        (LogIsNew /\ LiveUnder(log, p) # {}) =>
            LET kvs == list_current_with_tx(log, p, 1, FALSE)
            IN  /\ Len(kvs) = 1
                /\ kvs[1] \in MatchedLiveRows(log, p)
                /\ \A kv \in MatchedLiveRows(log, p) :
                       kvs[1].mod_revision <= kv.mod_revision

\* list_current(prefix, 1, false) has returned a row that is not the
\* earliest created of the live keys under the prefix
C9_Witness ==
    /\ last.op = "list_current"
    /\ last.limit = 1
    /\ ~last.include_deleted
    /\ EndsWithSlash(last.name)
    /\ Len(last.kvs) = 1
    /\ \E k \in LiveUnder(log, last.name) :
           CurrentRow(log, k).create_revision < last.kvs[1].create_revision

\* C10: for a prefix that does not end in '/', get, list_current and count
\* consider only rows whose name equals the prefix.
C10_ExactMatch ==
    \A p \in { q \in Prefixes : ~EndsWithSlash(q) } :
        /\ \A d \in BOOLEAN :
              LET kvs == list_current_with_tx(log, p, -1, d)
              IN  \A i \in 1..Len(kvs) : kvs[i].key = p
        /\ LET kv == get_with_tx(log, p)
           IN  \A i \in 1..Len(kv) : kv[i].key = p
        /\ CountOf(log, p) = IF IsLive(log, p) THEN 1 ELSE 0

\* C11: count(prefix) equals the number of rows list_current(prefix, -1,
\* false) returns, for every prefix.
C11_CountEqualsListLength ==
    /\ LogIsNew =>
          \A p \in Prefixes :
              CountOf(log, p) = Len(list_current_with_tx(log, p, -1, FALSE))
    /\ last.op = "count" =>
          last.count = Len(list_current_with_tx(log, last.name, -1, FALSE))

\* count has returned while a key matching the prefix is tombstoned and
\* another is live
C11_Witness ==
    /\ last.op = "count"
    /\ last.count >= 1
    /\ Len(list_current_with_tx(log, last.name, -1, TRUE)) > last.count

\* C12: a put to a key that is already live leaves count(prefix) unchanged
\* for every prefix, and the current revision advances.
C12_UpdateKeepsCount ==
    [][ (last'.op = "put" /\ IsLive(log, last'.name))
          => /\ \A p \in Prefixes : CountOf(log', p) = CountOf(log, p)
             /\ CURRENT_REVISION_SQL(log') > CURRENT_REVISION_SQL(log) ]_vars

\* a put to a live key has returned and a count over it is not zero
C12_Witness ==
    /\ last.op = "put"
    /\ IsLive(Front(log), last.name)
    /\ CountOf(log, last.name) >= 1
    /\ CURRENT_REVISION_SQL(log) = CURRENT_REVISION_SQL(Front(log)) + 1

\* C13: get(key, Some(revision)) fails with the not-implemented signal for
\* every key and revision in every state of the store, returns neither a
\* KeyValue nor absent, and appends no row.
C13_GetAtRevisionUnimplemented ==
    [][ /\ \A name \in Names : \A revision \in 0..(MaxLog + 1) :
              trait_get(log, name, <<revision>>).signal = "unimplemented"
        /\ (last'.op = "get" /\ last'.at # <<>>)
              => /\ last'.signal = "unimplemented"
                 /\ last'.kvs = <<>>
                 /\ log' = log ]_vars

\* get was called with an explicit revision on a key that is live
C13_Witness ==
    /\ last.op = "get"
    /\ last.at # <<>>
    /\ IsLive(log, last.name)
    /\ Len(get_with_tx(log, last.name)) = 1

ReadOps == {"get", "list_current", "count", "current_revision"}

\* C14: every operation leaves every existing row unchanged and removes
\* none; put appends exactly one row, delete exactly one when the key is
\* live and none otherwise, and the read operations none.
C14_AppendOnly ==
    [][ /\ Len(log') >= Len(log)
        /\ SubSeq(log', 1, Len(log)) = log
        /\ last'.op = "put" => Len(log') = Len(log) + 1
        /\ last'.op = "delete" =>
              Len(log') = Len(log) + (IF IsLive(log, last'.name) THEN 1 ELSE 0)
        /\ last'.op \in ReadOps => log' = log ]_vars

\* C15: all rows that share a name carry the same create_revision.
C15_CreateRevisionPerName ==
    \A i, j \in 1..Len(log) :
        log[i].name = log[j].name => log[i].create_revision = log[j].create_revision

\* the rows before row i that have its name
EarlierSameName(l, i) == { j \in 1..(i - 1) : l[j].name = l[i].name }

\* C18: every tombstone row has created = false, create_revision = 0 and no
\* value, and the old_value of every tombstone and of every update row is
\* the value of the most recent earlier row with the same name.
C18_TombstoneAndOldValue ==
    \A i \in 1..Len(log) :
        /\ log[i].deleted =>
              /\ log[i].created = FALSE
              /\ log[i].create_revision = 0
              /\ log[i].value = NULL
        /\ (log[i].deleted \/ ~log[i].created) =>
              /\ EarlierSameName(log, i) # {}
              /\ \E j \in EarlierSameName(log, i) :
                    /\ \A k \in EarlierSameName(log, i) : k <= j
                    /\ log[i].old_value = log[j].value

\* C19: a put to a key whose current row is a tombstone appends a creation
\* row (created, no old_value) whose create_revision is its own id, and the
\* following get returns the value put with create_revision and
\* mod_revision equal to the returned revision.
C19_RecreateAfterDelete ==
    [][ ( /\ last'.op = "put"
          /\ HasRow(log, last'.name)
          /\ CurrentRow(log, last'.name).deleted )
          => LET row == log'[Len(log')]
                 kv  == get_with_tx(log', last'.name)
             IN  /\ row.created = TRUE
                 /\ row.old_value = NULL
                 /\ row.create_revision = row.id
                 /\ Len(kv) = 1
                 /\ kv[1].value = last'.value
                 /\ kv[1].create_revision = last'.revision
                 /\ kv[1].mod_revision = last'.revision ]_vars

\* the ids of the log are 1..n in order
IdsAreDense(l) == \A i \in 1..Len(l) : l[i].id = i

\* C20: with operations run one after another the ids in the log are
\* exactly 1..n, current_revision is 0 on the empty store and the number of
\* rows otherwise, and every put and every delete of a live key returns the
\* previous current_revision plus one.
C20_DenseRevisions ==
    [][ /\ IdsAreDense(log) /\ IdsAreDense(log')
        /\ CURRENT_REVISION_SQL(log) = Len(log)
        /\ CURRENT_REVISION_SQL(log') = Len(log')
        /\ last'.op = "current_revision" => last'.revision = Len(log')
        /\ (last'.op = "put" \/ (last'.op = "delete" /\ IsLive(log, last'.name)))
              => last'.revision = CURRENT_REVISION_SQL(log) + 1 ]_vars

\* current_revision has returned the number of rows of a log that holds a
\* tombstone
C20_Witness ==
    /\ last.op = "current_revision"
    /\ Len(log) >= 2
    /\ last.revision = Len(log)
    /\ \E i \in 1..Len(log) : log[i].deleted

\* C16: concurrent puts to the same key, their read and append steps
\* interleaved in any order, return strictly increasing, unique revisions,
\* and every put that returned a revision has its row in the log.
C16_ConcurrentPutsSerialised ==
    /\ \A i, j \in 1..Len(acks) : i < j => acks[i].revision < acks[j].revision
    /\ \A i, j \in 1..Len(log) : i # j => log[i].id # log[j].id
    /\ \A i \in 1..Len(acks) :
          \E j \in 1..Len(log) :
              /\ log[j].id = acks[i].revision
              /\ log[j].name = acks[i].name
              /\ log[j].value = acks[i].value

\* two writers have puts to the same key open at once, one with its row
\* inserted and one about to insert, after an earlier put has returned
C16_Witness ==
    /\ Len(acks) >= 1
    /\ \E w, v \in Writers :
          /\ w # v
          /\ tx[w].pc = "commit"
          /\ tx[v].pc = "insert"
          /\ tx[w].name = tx[v].name
          /\ tx[w].name = acks[1].name

\* C17: every row with created = true has create_revision equal to its own
\* id, also when a put read the current revision before another writer's
\* row was committed.
C17_CreatedRowRevisionIsId ==
    \A i \in 1..Len(log) :
        log[i].created => log[i].create_revision = log[i].id

\* a put that found no row read the current revision, and another writer's
\* creation row was committed before it reached its INSERT
C17_Witness ==
    \E w \in Writers :
        /\ tx[w].pc = "insert"
        /\ tx[w].kv = <<>>
        /\ tx[w].snap < Len(log)
        /\ log[Len(log)].created
        /\ log[Len(log)].id = tx[w].next_revision

====
